---- MODULE Spec2Model ----
(***************************************************************************)
(* A model of hazard-map-darj.py: the per-point data gathering             *)
(* (gather_bubble_data), the river-level fallback chain                    *)
(* (fetch_teesta_level), the hazard scoring functions, and the refresh     *)
(* scheduler (main, updater_loop, build_map) with the file OUT_HTML as     *)
(* the published snapshot.                                                 *)
(*                                                                         *)
(* Units.  Python floats are modelled as integers: humidity in hundredths   *)
(* of a percent (80 % is 8000), pressure in hundredths of a hPa,           *)
(* precipitation in hundredths of a mm, river level in cm, PM2.5 / PM10 in *)
(* tenths of ug/m3 (35.4 is 354).  The landslide score is computed in      *)
(* thousandths of a point and returned, rounded, in tenths (47.0 is 470).  *)
(* Time is in seconds.                                                     *)
(***************************************************************************)
EXTENDS Integers, Sequences, FiniteSets, TLC

VARIABLES
    \* ---- gather_bubble_data, one run ----
    gpc,        \* position of the run: "weather", "aq", "done" or "raised"
    gidx,       \* 1-based index into BUBBLES of the point being processed
    cur,        \* locals of the current iteration after the weather step
    results,    \* the list `results`
    gin,        \* history: per processed point, the responses it received
    greqs,      \* history: the requests issued, in order
    gprior,     \* history: an earlier run of gather_bubble_data has returned
    \* ---- fetch_teesta_level, one call ----
    feed,       \* what the ThingSpeak channel answers
    page,       \* what the CWC FFS site answers
    tpc,        \* "primary", "secondary", "done" or "raised"
    treqs,      \* history: the requests issued, in order
    tres,       \* the returned tuple (val, unit, status)
    \* ---- main, updater_loop, build_map and the presentation surface ----
    pc,         \* pc[c]: position of context c ("main", "updater")
    loc,        \* loc[c]: the locals data, teesta, ts of context c
    file,       \* content of OUT_HTML
    shown,      \* what the webview window last read from OUT_HTML
    reload,     \* a load of OUT_HTML is pending in the window
    clock,      \* wall clock, as the stamp datetime.now() yields
    elapsed,    \* seconds since the current updater tick started
    bodyTime,   \* value of `elapsed` when the last tick's try block ended
    period,     \* seconds between the starts of the last two ticks (0: none)
    tickFile,   \* content of OUT_HTML when the current tick started
    outcome,    \* how the last tick's try block ended: "none", "ok", "raised"
    renders,    \* number of times main completed build_map
    \* ---- one call of a scoring or extraction function ----
    fcall,      \* the function called and its arguments
    fret        \* what the call returned, once it has

gvars == <<gpc, gidx, cur, results, gin, greqs, gprior>>
tvars == <<feed, page, tpc, treqs, tres>>
svars == <<pc, loc, file, shown, reload, clock, elapsed, bodyTime, period,
           tickFile, outcome, renders>>
fvars == <<fcall, fret>>
vars == <<gvars, tvars, svars, fvars>>

----------------------------------------------------------------------------
(* Bounds of the model *)

NumBubbles == 2        \* points of the registry that are modelled
SeriesLen == 4         \* hours in an hourly series
MaxNetSeconds == 1     \* longest duration of a tick's gather_bubble_data
ClockModulus == 2      \* the timestamps are counted modulo this

----------------------------------------------------------------------------
(* Python and JSON values *)

None == [t |-> "none", v |-> 0]
Num(n) == [t |-> "num", v |-> n]
\* A JSON string holding the decimal text of n, such as "350".
NumStr(n) == [t |-> "numstr", v |-> n]
\* A non-empty JSON string that is no number, and the empty string.
Text == [t |-> "text", v |-> 0]
EmptyStr == [t |-> "emptystr", v |-> 0]

\* Result of evaluating an expression: a value, or the exception raised.
Ok(x) == [exc |-> "none", val |-> x]
Raise(e) == [exc |-> e, val |-> None]

\* float(x)
Float(x) ==
    CASE x.t = "num" -> Ok(Num(x.v))
      [] x.t = "numstr" -> Ok(Num(x.v))
      [] x.t = "none" -> Raise("TypeError")
      [] OTHER -> Raise("ValueError")

\* bool(x): the truth value Python's `if x` uses.
Truthy(x) ==
    CASE x.t = "num" -> x.v # 0
      [] x.t = "numstr" -> TRUE
      [] x.t = "text" -> TRUE
      [] OTHER -> FALSE

\* seq[i] for a Python list and a 0-based, possibly negative, index.
PyIndex(seq, i) ==
    IF i >= 0 /\ i < Len(seq) THEN Ok(seq[i + 1])
    ELSE IF i < 0 /\ -i <= Len(seq) THEN Ok(seq[Len(seq) + i + 1])
    ELSE Raise("IndexError")

\* list.index(key): the first 0-based position of key, ValueError if absent.
ListIndex(seq, key) ==
    IF \E k \in 1..Len(seq) : seq[k] = key
    THEN Ok(Num((CHOOSE k \in 1..Len(seq) :
                    seq[k] = key /\ \A j \in 1..(k - 1) : seq[j] # key) - 1))
    ELSE Raise("ValueError")

\* The exception of the first evaluation that raises, "none" if none does.
RECURSIVE FirstExc(_)
FirstExc(rs) ==
    IF rs = <<>> THEN "none"
    ELSE IF Head(rs).exc # "none" THEN Head(rs).exc
    ELSE FirstExc(Tail(rs))

Min(a, b) == IF a < b THEN a ELSE b
Max(a, b) == IF a > b THEN a ELSE b

----------------------------------------------------------------------------
(* Configuration *)

\* The first NumBubbles names of the registry, in registry order.
BUBBLES == SubSeq(<<"Chowrasta / Mall", "Ghoom", "Lebong", "Sonada">>, 1, NumBubbles)

REFRESH_SECONDS == 180

----------------------------------------------------------------------------
(* Hazard scoring *)

ElevM == 2000

\* pm25_to_category(pm25), pm25 a number in tenths of ug/m3 or None.
pm25_to_category_exclusive(pm25) ==
    IF pm25 = None THEN "N/A"
    ELSE IF pm25.v < 120 THEN "Good"
    ELSE IF pm25.v < 354 THEN "Moderate"
    ELSE IF pm25.v < 554 THEN "Unhealthy for Sensitive Groups"
    ELSE IF pm25.v < 1504 THEN "Unhealthy"
    ELSE IF pm25.v < 2504 THEN "Very Unhealthy"
    ELSE "Hazardous"
pm25_to_category(pm25) ==
    IF pm25 = None THEN "N/A"
    ELSE IF pm25.v <= 120 THEN "Good"
    ELSE IF pm25.v <= 354 THEN "Moderate"
    ELSE IF pm25.v <= 554 THEN "Unhealthy for Sensitive Groups"
    ELSE IF pm25.v <= 1504 THEN "Unhealthy"
    ELSE IF pm25.v <= 2504 THEN "Very Unhealthy"
    ELSE "Hazardous"

\* Lines 161-164: the label of a score given in thousandths.
LandslideLabel(score) ==
    IF score >= 85000 THEN "confirm 99%"
    ELSE IF score >= 60000 THEN "high"
    ELSE IF score >= 35000 THEN "mid"
    ELSE "no"

\* Line 158: the clamp to 0..100, in thousandths.
NoClamp(score) == score
Clamp(score) == Max(0, Min(100000, score))

\* round(score, 1): thousandths to the nearest tenth, a tie to the even one.
Round1(score) ==
    LET q == score \div 100
        r == score % 100
    IN IF r > 50 \/ (r = 50 /\ q % 2 = 1) THEN q + 1 ELSE q

\* rainfall_scale(mm), mm a number in hundredths of a mm.
rainfall_scale_inclusive(mm) ==
    IF mm.v <= 20 THEN "No"
    ELSE IF mm.v <= 500 THEN "Mid"
    ELSE IF mm.v <= 2000 THEN "High"
    ELSE "Confirm 99%"
rainfall_scale(mm) ==
    IF mm.v < 20 THEN "No"
    ELSE IF mm.v < 500 THEN "Mid"
    ELSE IF mm.v < 2000 THEN "High"
    ELSE "Confirm 99%"

\* compute_landslide_score(hum, pres_drop_3h) with the default elev_m: the
\* exception raised ("none" if none), the returned score in tenths and the
\* label.  `if hum` is a truth test; `pres_drop_3h > 0` compares, and
\* comparing None with 0 raises TypeError.  The label is taken from the
\* clamped score, the returned score is that score rounded.
compute_landslide_score(hum, pres_drop_3h) ==
    IF pres_drop_3h.t # "num"
    THEN [exc |-> "TypeError", score |-> 0, label |-> "no"]
    ELSE
      LET humPart == IF Truthy(hum) THEN Max(0, hum.v - 6000) * 8 ELSE 0
          presPart == IF pres_drop_3h.v > 0
                      THEN Min(30000, pres_drop_3h.v * 80) ELSE 0
          elevPart == Min(15000, (ElevM - 500) * 10)
          score == Clamp(humPart + presPart + elevPart)
      IN [exc |-> "none", score |-> Round1(score), label |-> LandslideLabel(score)]

----------------------------------------------------------------------------
(* gather_bubble_data *)

\* Exceptions the model raises; all are subclasses of Exception.
Exceptions == {"RequestException", "KeyError", "IndexError", "TypeError",
               "ValueError", "OSError"}

\* Responses of the weather source.  kind "neterr": requests.get or
\* raise_for_status raises; "nohourly": JSON without the key "hourly";
\* "json": JSON whose "hourly" object holds the series.
NoSeries == [time |-> <<>>, precipitation |-> <<>>, relativehumidity_2m |-> <<>>,
             pressure_msl |-> <<>>, temperature_2m |-> <<>>]
WeatherJson(hum, fall) ==
    [kind |-> "json",
     hourly |-> [time |-> [i \in 1..SeriesLen |-> i],
                 precipitation |-> [i \in 1..SeriesLen |-> Num(i - 1)],
                 relativehumidity_2m |-> [i \in 1..SeriesLen |-> Num(hum * 100)],
                 pressure_msl |->
                     [i \in 1..SeriesLen |-> Num((1010 - fall * (i - 1)) * 100)],
                 temperature_2m |-> [i \in 1..SeriesLen |-> Num(10 + i)]]]
\* JSON whose precipitation series holds nulls.
WeatherNulls ==
    [kind |-> "json",
     hourly |-> [WeatherJson(80, 2).hourly EXCEPT
                   !.precipitation = [i \in 1..SeriesLen |-> None]]]
WeatherFailures ==
    {[kind |-> "neterr", hourly |-> NoSeries],
     [kind |-> "nohourly", hourly |-> NoSeries],
     WeatherNulls}
WeatherResponses ==
    WeatherFailures \cup {WeatherJson(80, 2), WeatherJson(95, 0)}

\* Responses of the air-quality source, of the same kinds.  `shift` moves
\* the time axis, so that a shifted axis lacks the current hour.
NoAQSeries == [time |-> <<>>, pm2_5 |-> <<>>, pm10 |-> <<>>]
AQJson(shift, p25, p10) ==
    [kind |-> "json",
     hourly |-> [time |-> [i \in 1..SeriesLen |-> i + shift],
                 pm2_5 |-> [i \in 1..SeriesLen |-> p25],
                 pm10 |-> [i \in 1..SeriesLen |-> p10]]]
AQFailures ==
    {[kind |-> "neterr", hourly |-> NoAQSeries],
     [kind |-> "nohourly", hourly |-> NoAQSeries],
     AQJson(100, Num(80), Num(200)),
     AQJson(0, None, Num(200)),
     AQJson(0, Num(80), None),
     AQJson(0, Num(80), Text)}
AQResponses ==
    AQFailures \cup {AQJson(0, Num(80), Num(200)), AQJson(0, Num(400), Num(200))}

\* The hour keys datetime.now() can format to: an hour of the axis 1..SeriesLen
\* (the first and the last are drawn) or an hour after its end.
NowKeys == {1, SeriesLen, SeriesLen + 1}

\* Lines 189-192: the index of the current hour, 0 when list.index raises.
AlignIndexLast(found) == IF found.exc = "none" THEN found.val.v ELSE -1
AlignIndex(found) == IF found.exc = "none" THEN found.val.v ELSE 0

\* Line 201: the pressure drop; `if pres_prev` is a truth test.
PressureDrop(pres_prev, pres) ==
    IF Truthy(pres_prev) THEN Num(pres_prev.v - pres.v) ELSE Num(0)

\* Lines 183-201: the weather fetch and the extraction of the point's
\* readings; exc is the first exception raised, "none" if none.
WeatherStep(w, now_key) ==
    IF w.kind = "neterr" THEN [exc |-> "RequestException"]
    ELSE IF w.kind = "nohourly" THEN [exc |-> "KeyError"]
    ELSE
      LET hourly == w.hourly
          found == ListIndex(hourly.time, now_key)
          idx == AlignIndex(found)
          at(series, i) ==
              LET x == PyIndex(series, i)
              IN IF x.exc # "none" THEN x ELSE Float(x.val)
          precip_now == at(hourly.precipitation, idx)
          precip_next1 == IF idx + 1 < Len(hourly.precipitation)
                          THEN at(hourly.precipitation, idx + 1) ELSE Ok(Num(0))
          hum == at(hourly.relativehumidity_2m, idx)
          pres == at(hourly.pressure_msl, idx)
          temp == at(hourly.temperature_2m, idx)
          pres_prev == IF idx >= 3 THEN at(hourly.pressure_msl, idx - 3) ELSE Ok(None)
          exc == FirstExc(<<precip_now, precip_next1, hum, pres, temp, pres_prev>>)
          pres_drop == PressureDrop(pres_prev.val, pres.val)
      IN IF exc # "none" THEN [exc |-> exc]
         ELSE [exc |-> "none", idx |-> idx, now_key |-> now_key,
               precip_now |-> precip_now.val, precip_next1 |-> precip_next1.val,
               hum |-> hum.val, pres |-> pres.val, temp |-> temp.val,
               pres_drop |-> pres_drop]

\* Line 210-211: the handler of the air-quality try block.  p25 is what pm25
\* was bound to when the exception was raised.
AQExceptKeepsPm25(p25) == [pm25 |-> p25, pm10 |-> None]
AQExcept(p25) == [pm25 |-> None, pm10 |-> None]

\* Lines 204-211: the air-quality fetch; its bare except catches everything.
AQStep(a, now_key) ==
    IF a.kind # "json" THEN AQExcept(None)
    ELSE
      LET ah == a.hourly
          aidx == ListIndex(ah.time, now_key)
          at(series) ==
              LET x == PyIndex(series, aidx.val.v)
              IN IF x.exc # "none" THEN x ELSE Float(x.val)
      IN IF aidx.exc # "none" THEN AQExcept(None)
         ELSE IF at(ah.pm2_5).exc # "none" THEN AQExcept(None)
         ELSE IF at(ah.pm10).exc # "none" THEN AQExcept(at(ah.pm2_5).val)
         ELSE [pm25 |-> at(ah.pm2_5).val, pm10 |-> at(ah.pm10).val]

\* Lines 216-224: the entry of a point whose try block completed.
EntryKeepsPreviousPm(name, c, aq, s) ==
    LET stale == aq.pm25 = None /\ results # <<>>
        pm25 == IF stale THEN results[Len(results)].pm25 ELSE aq.pm25
        pm10 == IF stale THEN results[Len(results)].pm10 ELSE aq.pm10
    IN [name |-> name,
        temp |-> c.temp, humid |-> c.hum, pressure |-> c.pres,
        precip_now |-> c.precip_now, precip_next1 |-> c.precip_next1,
        pressure_drop_3h |-> c.pres_drop,
        landslide_score |-> s.score, landslide_label |-> s.label,
        pm25 |-> pm25, pm10 |-> pm10,
        aqi_category |-> pm25_to_category(pm25)]
Entry(name, c, aq, s) ==
    [name |-> name,
     temp |-> c.temp, humid |-> c.hum, pressure |-> c.pres,
     precip_now |-> c.precip_now, precip_next1 |-> c.precip_next1,
     pressure_drop_3h |-> c.pres_drop,
     landslide_score |-> s.score, landslide_label |-> s.label,
     pm25 |-> aq.pm25, pm10 |-> aq.pm10,
     aqi_category |-> pm25_to_category(aq.pm25)]

\* Lines 228-237: the placeholder entry of a point whose try block raised.
PlaceholderZeros(name, e) ==
    [name |-> name,
     temp |-> Num(0), humid |-> Num(0), pressure |-> Num(0),
     precip_now |-> Num(0), precip_next1 |-> Num(0),
     pressure_drop_3h |-> Num(0),
     landslide_score |-> 0, landslide_label |-> "no",
     pm25 |-> None, pm10 |-> None,
     aqi_category |-> "N/A",
     error |-> e]
Placeholder(name, e) ==
    [name |-> name,
     temp |-> None, humid |-> None, pressure |-> None,
     precip_now |-> Num(0), precip_next1 |-> Num(0),
     pressure_drop_3h |-> Num(0),
     landslide_score |-> 0, landslide_label |-> "no",
     pm25 |-> None, pm10 |-> None,
     aqi_category |-> "N/A",
     error |-> e]

\* Line 226: `except Exception` catches every subclass of Exception.
OuterCatchesOnlyNetwork(e) == e = "RequestException"
OuterCatches(e) == e \in Exceptions

NoCur == [exc |-> "unset"]
NoResponse == [kind |-> "none", hourly |-> NoAQSeries]

\* Line 180: the for loop moves to the next point, or the run returns.
GatherAdvanceRetry ==
    /\ gidx' = IF "error" \in DOMAIN results'[Len(results')] THEN gidx ELSE gidx + 1
    /\ gpc' = IF gidx' > Len(BUBBLES) THEN "done" ELSE "weather"
    /\ cur' = NoCur
GatherAdvance ==
    /\ gidx' = gidx + 1
    /\ gpc' = IF gidx = Len(BUBBLES) THEN "done" ELSE "weather"
    /\ cur' = NoCur

\* Lines 181-201 for the point at gidx, and lines 226-237 when they raise.
GatherWeather ==
    /\ gpc = "weather"
    /\ gidx <= Len(BUBBLES)
    /\ \E w \in WeatherResponses, k \in NowKeys :
         LET r == WeatherStep(w, k)
         IN /\ greqs' = Append(greqs, <<"weather", gidx>>)
            /\ IF r.exc = "none"
               THEN /\ cur' = [r EXCEPT !.exc = "none"] @@ [w |-> w]
                    /\ gpc' = "aq"
                    /\ UNCHANGED <<gidx, results, gin>>
               ELSE IF OuterCatches(r.exc)
               THEN /\ results' = Append(results, Placeholder(BUBBLES[gidx], r.exc))
                    /\ gin' = Append(gin, [w |-> w, now_key |-> k, a |-> NoResponse])
                    /\ GatherAdvance
               ELSE /\ gpc' = "raised"
                    /\ UNCHANGED <<gidx, cur, results, gin>>
    /\ UNCHANGED <<gprior, tvars, svars, fvars>>

\* Lines 203-224 for the point at gidx, and lines 226-237 when they raise.
GatherAQ ==
    /\ gpc = "aq"
    /\ \E a \in AQResponses :
         LET aq == AQStep(a, cur.now_key)
             s == compute_landslide_score(cur.hum, cur.pres_drop)
         IN /\ greqs' = Append(greqs, <<"aq", gidx>>)
            /\ gin' = Append(gin, [w |-> cur.w, now_key |-> cur.now_key, a |-> a])
            /\ IF s.exc = "none"
               THEN /\ results' = Append(results, Entry(BUBBLES[gidx], cur, aq, s))
                    /\ GatherAdvance
               ELSE IF OuterCatches(s.exc)
               THEN /\ results' = Append(results, Placeholder(BUBBLES[gidx], s.exc))
                    /\ GatherAdvance
               ELSE /\ gpc' = "raised"
                    /\ UNCHANGED <<gidx, cur, results>>
    /\ UNCHANGED <<gprior, tvars, svars, fvars>>

\* The entry gather_bubble_data produces for one point from the responses
\* w (weather) and a (air quality) and the hour key k.
PointResult(name, w, k, a) ==
    LET r == WeatherStep(w, k)
    IN IF r.exc # "none" THEN Placeholder(name, r.exc)
       ELSE LET s == compute_landslide_score(r.hum, r.pres_drop)
            IN IF s.exc # "none" THEN Placeholder(name, s.exc)
               ELSE Entry(name, r, AQStep(a, k), s)

\* Lines 176-178: gather_bubble_data is called again; results is a new list.
GatherCall ==
    /\ gpc = "done"
    /\ gpc' = "weather"
    /\ gidx' = 1
    /\ cur' = NoCur
    /\ results' = <<>>
    /\ gin' = <<>>
    /\ greqs' = <<>>
    /\ gprior' = TRUE
    /\ UNCHANGED <<tvars, svars, fvars>>

GatherInit ==
    /\ gpc = "weather"
    /\ gidx = 1
    /\ cur = NoCur
    /\ results = <<>>
    /\ gin = <<>>
    /\ greqs = <<>>
    /\ gprior = FALSE

GatherIdle ==
    /\ gpc = "idle"
    /\ gidx = 1
    /\ cur = NoCur
    /\ results = <<>>
    /\ gin = <<>>
    /\ greqs = <<>>
    /\ gprior = FALSE

----------------------------------------------------------------------------
(* fetch_teesta_level *)

\* River levels, in cm, the ThingSpeak channel may report.
Levels == {0, 50, 99, 100, 101, 300, 301, 400, 401}

\* Answers of the ThingSpeak channel.  kind "neterr": requests.get raises;
\* "http": a status code other than 200; "badjson": a 200 whose body is no
\* JSON; "nofeeds": JSON whose "feeds" is missing or empty; "json": JSON
\* whose first feed holds field1 (None: the key is missing or null).
Feeds ==
    {[kind |-> k, field1 |-> None] : k \in {"neterr", "http", "badjson", "nofeeds"}}
    \cup {[kind |-> "json", field1 |-> x] :
            x \in {None, EmptyStr, Text} \cup {Num(v) : v \in Levels}
                  \cup {NumStr(v) : v \in Levels}}

\* Answers of the CWC FFS site: requests.get raises, or a body, modelled as
\* the words it holds.
Pages ==
    {[kind |-> "neterr", body |-> <<>>]}
    \cup {[kind |-> "body", body |-> b] :
            b \in {<<>>, <<"Ganga">>, <<"Ganga", "Teesta">>, <<"TEESTA">>}}

\* str.lower() on the words of a body.
Lower(word) ==
    CASE word = "Teesta" -> "teesta"
      [] word = "TEESTA" -> "teesta"
      [] word = "Ganga" -> "ganga"
      [] OTHER -> word

\* Lines 132-135: the status of a numeric level.
LevelStatus(val) ==
    IF val > 400 THEN "FLOOD WARNING"
    ELSE IF val > 300 THEN "HIGH"
    ELSE IF val < 100 THEN "LOW"
    ELSE "NORMAL"

NoReading == [val |-> None, unit |-> "(unset)", status |-> "(unset)"]

\* Lines 126-136: the body of the first try block.  returned: the function
\* returned res; exc: the exception the block raised, "none" if none.
PrimaryStep(f) ==
    LET through(e) == [returned |-> FALSE, exc |-> e, res |-> NoReading]
    IN CASE f.kind = "neterr" -> through("RequestException")
         [] f.kind = "http" -> through("none")
         [] f.kind = "badjson" -> through("ValueError")
         [] f.kind = "nofeeds" -> through("none")
         [] OTHER ->
              IF ~Truthy(f.field1) THEN through("none")
              ELSE LET val == Float(f.field1)
                   IN IF val.exc # "none" THEN through(val.exc)
                      ELSE [returned |-> TRUE, exc |-> "none",
                            res |-> [val |-> val.val, unit |-> "cm (ThingSpeak)",
                                     status |-> LevelStatus(val.val.v)]]

\* Line 137: `except Exception` of the first try block.
PrimaryCatchesOnlyNetwork(e) == e = "RequestException"
PrimaryCatches(e) == e \in Exceptions

\* Lines 142-148: the second try block, whose bare except catches
\* everything, and the final return.
SecondaryStep(p) ==
    IF p.kind = "body" /\ \E i \in 1..Len(p.body) : Lower(p.body[i]) = "teesta"
    THEN [val |-> None, unit |-> "CWC FFS mention", status |-> "SEE_CWC"]
    ELSE [val |-> None, unit |-> "(None)", status |-> "NO_PUBLIC_RIVER_DATA"]

\* What fetch_teesta_level returns for the answers f and p.
TeestaResult(f, p) ==
    IF PrimaryStep(f).returned THEN PrimaryStep(f).res ELSE SecondaryStep(p)

TeestaInit ==
    /\ feed \in Feeds
    /\ page \in Pages
    /\ tpc = "primary"
    /\ treqs = <<>>
    /\ tres = NoReading

TeestaIdle ==
    /\ feed = [kind |-> "neterr", field1 |-> None]
    /\ page = [kind |-> "neterr", body |-> <<>>]
    /\ tpc = "idle"
    /\ treqs = <<>>
    /\ tres = NoReading

\* Lines 125-138: the request to ThingSpeak and what follows it.
TeestaPrimary ==
    /\ tpc = "primary"
    /\ treqs' = Append(treqs, "thingspeak")
    /\ LET r == PrimaryStep(feed)
       IN IF r.returned
          THEN tres' = r.res /\ tpc' = "done"
          ELSE IF r.exc = "none" \/ PrimaryCatches(r.exc)
          THEN tres' = tres /\ tpc' = "secondary"
          ELSE tres' = tres /\ tpc' = "raised"
    /\ UNCHANGED <<feed, page, gvars, svars, fvars>>

\* Lines 141-148: the request to the CWC FFS site and the return.
TeestaSecondary ==
    /\ tpc = "secondary"
    /\ treqs' = Append(treqs, "cwc")
    /\ tres' = SecondaryStep(page)
    /\ tpc' = "done"
    /\ UNCHANGED <<feed, page, gvars, svars, fvars>>

----------------------------------------------------------------------------
(* main, updater_loop, build_map *)

Contexts == {"main", "updater"}

\* The statements of main, lines 349-358, in program order.  build_map is
\* two steps: "build" up to the opening of OUT_HTML for writing, which
\* truncates it, and "write", the writing of the rendered page.
MainOrderThreadFirst ==
    <<"create_window", "start_thread", "gather", "teesta", "ts", "build", "write",
      "webview", "gui">>
MainOrder ==
    <<"gather", "teesta", "ts", "build", "write", "create_window", "start_thread",
      "webview", "gui">>

\* The statements of one iteration of updater_loop, lines 336-344.
UpdaterOrder == <<"gather", "teesta", "ts", "build", "write", "load_url", "sleep">>

\* The statements of a fetch-and-render cycle, and of the try block.
CycleSteps == {"gather", "teesta", "ts", "build", "write"}
TrySteps == CycleSteps \cup {"load_url"}

Order(c) == IF c = "main" THEN MainOrder ELSE UpdaterOrder

\* The statement after statement p of context c.
After(c, p) ==
    LET o == Order(c)
        i == CHOOSE k \in 1..Len(o) : o[k] = p
    IN IF i = Len(o) THEN o[1] ELSE o[i + 1]

NoLoc == [data |-> <<>>, teesta |-> NoReading, ts |-> 0]

\* Content of OUT_HTML: no file, a file opened for writing and not yet
\* written, or a page.
NoFile == [kind |-> "absent"]
Truncated == [kind |-> "truncated"]

\* Lines 271-278: the text of the Teesta box.
TeestaText(teesta) ==
    IF teesta.status = "SEE_CWC" THEN [text |-> "CWC mentions found (see FFS)"]
    ELSE IF teesta.status = "NO_PUBLIC_RIVER_DATA" THEN [text |-> "No public river data"]
    ELSE IF teesta.val = None THEN [text |-> "No numeric data", status |-> teesta.status]
    ELSE [text |-> "level", val |-> teesta.val.v, unit |-> teesta.unit,
          status |-> teesta.status]

\* Lines 254-326: the page build_map renders from data, timestamp, teesta.
Page(l) ==
    [kind |-> "page", updated |-> l.ts, teesta |-> TeestaText(l.teesta),
     bubbles |-> l.data]

\* The responses all points receive in one run of gather_bubble_data within
\* a cycle: every source down, or every source up.
CycleResponses ==
    {[w |-> [kind |-> "neterr", hourly |-> NoSeries], k |-> SeriesLen, a |-> NoResponse],
     [w |-> WeatherJson(80, 2), k |-> SeriesLen, a |-> AQJson(0, Num(80), Num(200))]}

\* The answers of the river sources within a cycle.
CycleRiver ==
    {[f |-> [kind |-> "json", field1 |-> NumStr(301)], p |-> [kind |-> "neterr", body |-> <<>>]],
     [f |-> [kind |-> "neterr", field1 |-> None], p |-> [kind |-> "neterr", body |-> <<>>]]}

NetSeconds == 0..MaxNetSeconds

\* The seconds a run of gather_bubble_data takes pass on the updater's
\* tick; the other statements of a tick are taken to be instantaneous.
Elapse(c, d) == elapsed' = IF c = "updater" THEN elapsed + d ELSE elapsed

\* Lines 337 and 349: data = gather_bubble_data().
Gather(c) ==
    /\ pc[c] = "gather"
    /\ \E r \in CycleResponses, d \in NetSeconds :
         /\ loc' = [loc EXCEPT ![c].data =
                      [i \in 1..Len(BUBBLES) |-> PointResult(BUBBLES[i], r.w, r.k, r.a)]]
         /\ Elapse(c, d)
    /\ pc' = [pc EXCEPT ![c] = After(c, "gather")]
    /\ UNCHANGED <<file, shown, reload, clock, bodyTime, period, tickFile, outcome,
                   renders, gvars, tvars, fvars>>

\* Lines 338 and 350: teesta = fetch_teesta_level().
Teesta(c) ==
    /\ pc[c] = "teesta"
    /\ \E r \in CycleRiver :
         loc' = [loc EXCEPT ![c].teesta = TeestaResult(r.f, r.p)]
    /\ pc' = [pc EXCEPT ![c] = After(c, "teesta")]
    /\ UNCHANGED <<file, shown, reload, clock, elapsed, bodyTime, period, tickFile,
                   outcome, renders, gvars, tvars, fvars>>

\* Lines 339 and 351: ts = datetime.now(...).strftime(...).
Stamp(c) ==
    /\ pc[c] = "ts"
    /\ loc' = [loc EXCEPT ![c].ts = clock]
    /\ pc' = [pc EXCEPT ![c] = After(c, "ts")]
    /\ UNCHANGED <<file, shown, reload, clock, elapsed, bodyTime, period, tickFile,
                   outcome, renders, gvars, tvars, fvars>>

\* Lines 254-329, first part: build_map builds the map and m.save opens
\* OUT_HTML for writing, which empties the file.
BuildOpen(c) ==
    /\ pc[c] = "build"
    /\ file' = Truncated
    /\ pc' = [pc EXCEPT ![c] = After(c, "build")]
    /\ UNCHANGED <<loc, shown, reload, clock, elapsed, bodyTime, period, tickFile,
                   outcome, renders, gvars, tvars, fvars>>

\* Line 329, second part: m.save writes the rendered page and closes.
BuildWrite(c) ==
    /\ pc[c] = "write"
    /\ file' = Page(loc[c])
    /\ pc' = [pc EXCEPT ![c] = After(c, "write")]
    /\ renders' = IF c = "main" THEN renders + 1 ELSE renders
    /\ loc' = [loc EXCEPT ![c] = NoLoc]
    /\ UNCHANGED <<shown, reload, clock, elapsed, bodyTime, period, tickFile,
                   outcome, gvars, tvars, fvars>>

\* Lines 354-355: webview.create_window.
CreateWindow ==
    /\ pc["main"] = "create_window"
    /\ pc' = [pc EXCEPT !["main"] = After("main", "create_window")]
    /\ UNCHANGED <<loc, file, shown, reload, clock, elapsed, bodyTime, period,
                   tickFile, outcome, renders, gvars, tvars, fvars>>

\* Line 357: threading.Thread(target=updater_loop, ...).start().
StartThread ==
    /\ pc["main"] = "start_thread"
    /\ pc["updater"] = "notstarted"
    /\ pc' = [pc EXCEPT !["main"] = After("main", "start_thread"),
                        !["updater"] = UpdaterOrder[1]]
    /\ elapsed' = 0
    /\ tickFile' = file
    /\ UNCHANGED <<loc, file, shown, reload, clock, bodyTime, period, outcome,
                   renders, gvars, tvars, fvars>>

\* Line 358: webview.start() shows the window, which loads file_url.
WebviewStart ==
    /\ pc["main"] = "webview"
    /\ pc' = [pc EXCEPT !["main"] = After("main", "webview")]
    /\ reload' = TRUE
    /\ UNCHANGED <<loc, file, shown, clock, elapsed, bodyTime, period, tickFile,
                   outcome, renders, gvars, tvars, fvars>>

\* The window, in the GUI loop, reads OUT_HTML for a pending load.
WindowLoad ==
    /\ pc["main"] = "gui"
    /\ reload
    /\ shown' = file
    /\ reload' = FALSE
    /\ UNCHANGED <<pc, loc, file, clock, elapsed, bodyTime, period, tickFile,
                   outcome, renders, gvars, tvars, fvars>>

\* An exception in main, lines 349-352, is not caught: the process ends
\* before the window and the thread exist.
MainRaise ==
    /\ pc["main"] \in CycleSteps
    /\ pc' = [pc EXCEPT !["main"] = "crashed"]
    /\ UNCHANGED <<loc, file, shown, reload, clock, elapsed, bodyTime, period,
                   tickFile, outcome, renders, gvars, tvars, fvars>>

\* Line 341: window.load_url asks the window to load OUT_HTML; the try
\* block completes.
LoadUrl ==
    /\ pc["updater"] = "load_url"
    /\ reload' = TRUE
    /\ outcome' = "ok"
    /\ bodyTime' = elapsed
    /\ pc' = [pc EXCEPT !["updater"] = After("updater", "load_url")]
    /\ UNCHANGED <<loc, file, shown, clock, elapsed, period, tickFile, renders,
                   gvars, tvars, fvars>>

\* Lines 342-343: a statement of the try block raises; the bare except
\* catches whatever it is and the loop goes on to its sleep.
ExceptEndsThread == "dead"
ExceptTarget == "sleep"

UpdaterExcept ==
    /\ pc["updater"] \in TrySteps
    /\ outcome' = "raised"
    /\ bodyTime' = elapsed
    /\ pc' = [pc EXCEPT !["updater"] = ExceptTarget]
    /\ loc' = [loc EXCEPT !["updater"] = NoLoc]
    /\ UNCHANGED <<file, shown, reload, clock, elapsed, period, tickFile, renders,
                   gvars, tvars, fvars>>

\* Line 344: the seconds time.sleep is asked to wait after a try block that
\* took `took` seconds.
SleepUntilNextPeriod(took) == REFRESH_SECONDS - took
SleepSeconds(took) == REFRESH_SECONDS

\* Line 344 and 335: time.sleep returns and the next iteration starts.
Sleep ==
    /\ pc["updater"] = "sleep"
    /\ period' = elapsed + SleepSeconds(elapsed)
    /\ elapsed' = 0
    /\ clock' = (clock + 1) % ClockModulus
    /\ tickFile' = file
    /\ pc' = [pc EXCEPT !["updater"] = After("updater", "sleep")]
    /\ UNCHANGED <<loc, file, shown, reload, bodyTime, outcome, renders, gvars, tvars, fvars>>

SchedInit ==
    /\ pc = [c \in Contexts |-> IF c = "main" THEN MainOrder[1] ELSE "notstarted"]
    /\ loc = [c \in Contexts |-> NoLoc]
    /\ file = NoFile
    /\ shown = NoFile
    /\ reload = FALSE
    /\ clock = 0
    /\ elapsed = 0
    /\ bodyTime = 0
    /\ period = 0
    /\ tickFile = NoFile
    /\ outcome = "none"
    /\ renders = 0

SchedIdle ==
    /\ pc = [c \in Contexts |-> "idle"]
    /\ loc = [c \in Contexts |-> NoLoc]
    /\ file = NoFile
    /\ shown = NoFile
    /\ reload = FALSE
    /\ clock = 0
    /\ elapsed = 0
    /\ bodyTime = 0
    /\ period = 0
    /\ tickFile = NoFile
    /\ outcome = "none"
    /\ renders = 0

----------------------------------------------------------------------------
(* One call of a scoring function or of the weather extraction *)

MaxHumSteps == 1500    \* humidities run from 55 % up in steps of 0.05 %
MaxDropSteps == 16     \* pressure drops run from -0.5 hPa up in steps of 0.25 hPa
MaxPm == 2600          \* largest PM2.5 value, in tenths of ug/m3
MaxRain == 2100        \* largest precipitation, in hundredths of a mm

Humidities == {None, Num(0)} \cup {Num(5500 + 5 * k) : k \in 0..MaxHumSteps}
Drops == {None} \cup {Num(25 * k) : k \in (-2)..MaxDropSteps}

\* Pressures, in hundredths of a hPa, of the series the extraction is given.
PressureValues == {0, 100000, 100400}

\* A weather response whose pressure series is ps.
WeatherWithPressure(ps) ==
    [WeatherJson(80, 0) EXCEPT !.hourly.pressure_msl = [i \in 1..SeriesLen |-> Num(ps[i])]]

ScoreCalls == {[fn |-> "score", hum |-> h, drop |-> p] : h \in Humidities, p \in Drops}
CategoryCalls == {[fn |-> "category", pm25 |-> x] : x \in {None} \cup {Num(v) : v \in 0..MaxPm}}
RainCalls == {[fn |-> "rain", mm |-> Num(v)] : v \in 0..MaxRain}
ExtractCalls ==
    {[fn |-> "extract", pressure |-> ps, now_key |-> k] :
        ps \in [1..SeriesLen -> PressureValues], k \in 1..(SeriesLen + 1)}

NoReturn == [done |-> FALSE]
Returned(x) == [done |-> TRUE, val |-> x]

FuncInit ==
    /\ fcall \in ScoreCalls \cup CategoryCalls \cup RainCalls \cup ExtractCalls
    /\ fret = NoReturn

FuncIdle ==
    /\ fcall = [fn |-> "none"]
    /\ fret = NoReturn

\* compute_landslide_score(hum, pres_drop_3h) is called and returns or raises.
CallScore ==
    /\ fcall.fn = "score"
    /\ ~fret.done
    /\ fret' = Returned(compute_landslide_score(fcall.hum, fcall.drop))
    /\ UNCHANGED <<fcall, gvars, tvars, svars>>

\* pm25_to_category(pm25) is called and returns.
CallCategory ==
    /\ fcall.fn = "category"
    /\ ~fret.done
    /\ fret' = Returned(pm25_to_category(fcall.pm25))
    /\ UNCHANGED <<fcall, gvars, tvars, svars>>

\* rainfall_scale(mm) is called and returns.
CallRain ==
    /\ fcall.fn = "rain"
    /\ ~fret.done
    /\ fret' = Returned(rainfall_scale(fcall.mm))
    /\ UNCHANGED <<fcall, gvars, tvars, svars>>

\* Lines 183-201 are run on a weather response.
CallExtract ==
    /\ fcall.fn = "extract"
    /\ ~fret.done
    /\ fret' = Returned(WeatherStep(WeatherWithPressure(fcall.pressure), fcall.now_key))
    /\ UNCHANGED <<fcall, gvars, tvars, svars>>

----------------------------------------------------------------------------
(* Specifications *)

\* The program: main, the updater thread and the window.
Init == GatherIdle /\ TeestaIdle /\ SchedInit /\ FuncIdle

MainStep ==
    \/ Gather("main") \/ Teesta("main") \/ Stamp("main")
    \/ BuildOpen("main") \/ BuildWrite("main")
    \/ CreateWindow \/ StartThread \/ WebviewStart \/ MainRaise

UpdaterStep ==
    \/ Gather("updater") \/ Teesta("updater") \/ Stamp("updater")
    \/ BuildOpen("updater") \/ BuildWrite("updater")
    \/ LoadUrl \/ UpdaterExcept \/ Sleep

Next == MainStep \/ UpdaterStep \/ WindowLoad

Spec == Init /\ [][Next]_vars

\* The thread runs whenever it can: its blocking calls return or time out.
FairSpec == Spec /\ WF_vars(UpdaterStep)

\* One run of gather_bubble_data.
GatherSpecInit == GatherInit /\ TeestaIdle /\ SchedIdle /\ FuncIdle
GatherNext == GatherWeather \/ GatherAQ \/ GatherCall
GatherSpec == GatherSpecInit /\ [][GatherNext]_vars

\* One call of fetch_teesta_level.
TeestaSpecInit == GatherIdle /\ TeestaInit /\ SchedIdle /\ FuncIdle
TeestaNext == TeestaPrimary \/ TeestaSecondary
TeestaSpec == TeestaSpecInit /\ [][TeestaNext]_vars

\* One call of a scoring function or of the weather extraction.
FuncSpecInit == GatherIdle /\ TeestaIdle /\ SchedIdle /\ FuncInit
FuncNext == CallScore \/ CallCategory \/ CallRain \/ CallExtract
FuncSpec == FuncSpecInit /\ [][FuncNext]_vars

----------------------------------------------------------------------------
(* Properties of gather_bubble_data, checked under GatherSpec *)

HasError(e) == "error" \in DOMAIN e

\* The 0-based position of hour key k on the weather axis 1..SeriesLen, and
\* 0 when k is not on it.
AlignedIdx(k) == IF k \in 1..SeriesLen THEN k - 1 ELSE 0

\* Point i's weather source failed: it raised or its response was malformed.
WeatherFailed(i) == gin[i].w \in WeatherFailures

\* Point i's air-quality step failed.
AQFailedAt(i) == gin[i].a \in AQFailures \/ gin[i].now_key \notin 1..SeriesLen

\* Entry e holds the readings of response w at hour key k.
HoldsReadings(e, w, k) ==
    LET j == AlignedIdx(k) + 1
    IN /\ e.temp = w.hourly.temperature_2m[j]
       /\ e.humid = w.hourly.relativehumidity_2m[j]
       /\ e.pressure = w.hourly.pressure_msl[j]
       /\ e.precip_now = w.hourly.precipitation[j]

NeutralEntry(e) ==
    /\ e.landslide_score = 0
    /\ e.landslide_label = "no"
    /\ e.aqi_category = "N/A"
    /\ e.temp = None /\ e.humid = None /\ e.pressure = None
    /\ e.pm25 = None /\ e.pm10 = None

\* C1: a run of gather_bubble_data never raises, and its results hold
\* exactly one entry per processed registry point, in registry order: when
\* the run returns, as many entries as BUBBLES has points.
C1_GatherTotal ==
    /\ gpc # "raised"
    /\ gpc \in {"weather", "aq"} => Len(results) = gidx - 1
    /\ gpc = "done" => Len(results) = Len(BUBBLES)
    /\ Len(gin) = Len(results)
    /\ \A i \in 1..Len(results) : results[i].name = BUBBLES[i]

C1_Witness ==
    /\ gpc = "done"
    /\ Len(results) = Len(BUBBLES)
    /\ gin[1].w.kind = "nohourly"
    /\ HasError(results[1])
    /\ gin[2].w.kind = "json" /\ gin[2].a.kind = "neterr"
    /\ ~HasError(results[2])

\* C2: when the weather source failed for exactly one point of a run, that
\* point's entry alone carries `error` and is neutral, and every other
\* entry carries no `error` and holds the readings of its own response.
C2_OneFailureIsolated ==
    (gpc = "done" /\ Cardinality({i \in 1..Len(gin) : WeatherFailed(i)}) = 1) =>
        \A i \in 1..Len(results) :
            IF WeatherFailed(i)
            THEN HasError(results[i]) /\ NeutralEntry(results[i])
            ELSE /\ ~HasError(results[i])
                 /\ HoldsReadings(results[i], gin[i].w, gin[i].now_key)
                 /\ results[i].landslide_score > 0

C2_Witness ==
    /\ gpc = "done"
    /\ Cardinality({i \in 1..Len(gin) : WeatherFailed(i)}) = 1
    /\ WeatherFailed(1)
    /\ results[1].error = "RequestException"
    /\ results[Len(results)].pm25 = Num(400)

\* C10: for a point whose weather fetch succeeded, a failure of the
\* air-quality step leaves pm25 and pm10 both None and the category "N/A",
\* while the entry carries no `error` and keeps the weather readings and the
\* landslide score and label it has with a working air-quality source; no
\* entry has one of pm25 and pm10 set and the other None.
C10_AQFailureDegradesOnlyAQ ==
    \A i \in 1..Len(results) :
        /\ (results[i].pm25 = None) <=> (results[i].pm10 = None)
        /\ (~WeatherFailed(i) /\ AQFailedAt(i)) =>
              LET e == results[i]
                  good == PointResult(BUBBLES[i], gin[i].w, gin[i].now_key,
                                      AQJson(0, Num(80), Num(200)))
              IN /\ e.pm25 = None /\ e.pm10 = None
                 /\ e.aqi_category = "N/A"
                 /\ ~HasError(e)
                 /\ HoldsReadings(e, gin[i].w, gin[i].now_key)
                 /\ e.landslide_score = good.landslide_score
                 /\ e.landslide_label = good.landslide_label
                 /\ e.pressure_drop_3h = good.pressure_drop_3h

C10_Witness ==
    \E i \in 1..Len(results) :
        /\ gin[i].w = WeatherJson(80, 2)
        /\ gin[i].now_key = SeriesLen
        /\ gin[i].a = AQJson(0, Num(80), None)
        /\ results[i].pm25 = None
        /\ results[i].landslide_label = "high"

----------------------------------------------------------------------------
(* Properties of fetch_teesta_level, checked under TeestaSpec *)

\* The ThingSpeak answer holds a number in field1, as a JSON number or as
\* the text of one.
FeedNumeric == feed.kind = "json" /\ feed.field1.t \in {"num", "numstr"}

NumericStatuses == {"FLOOD WARNING", "HIGH", "LOW", "NORMAL"}
NullStatuses == {"SEE_CWC", "NO_PUBLIC_RIVER_DATA"}

\* C6: when the primary feed yields a number, zero included, the call
\* returns after the primary step with that number and a status derived from
\* it, and never requests the secondary source; the secondary source is
\* requested only after the primary step, and NO_PUBLIC_RIVER_DATA is
\* returned only after both requests.
C6_PrimaryNumberDecides ==
    /\ (tpc # "primary" /\ FeedNumeric) =>
          /\ tpc = "done"
          /\ treqs = <<"thingspeak">>
          /\ tres.val = Num(feed.field1.v)
          /\ tres.status \in NumericStatuses
    /\ (tpc = "done" /\ tres.status = "NO_PUBLIC_RIVER_DATA") =>
          treqs = <<"thingspeak", "cwc">>
    /\ \A i \in 1..Len(treqs) : treqs[i] = "cwc" => i = 2 /\ treqs[1] = "thingspeak"

\* The primary step raises: a network error, a body that is no JSON, or a
\* field that is no number.
PrimaryRaises == feed.kind \in {"neterr", "badjson"} \/ feed.field1 = Text

\* C7: fetch_teesta_level never raises; an error at the primary step leads
\* to the secondary step, an error at the secondary step to
\* NO_PUBLIC_RIVER_DATA; the call returns one reading whose status is one
\* of the six, with val None exactly for SEE_CWC and NO_PUBLIC_RIVER_DATA.
C7_TeestaTotal ==
    /\ tpc \in {"primary", "secondary", "done"}
    /\ (tpc # "primary" /\ PrimaryRaises) =>
          (tpc = "secondary" \/ treqs = <<"thingspeak", "cwc">>)
    /\ tpc = "done" =>
          /\ tres.status \in NumericStatuses \cup NullStatuses
          /\ (tres.val = None) <=> (tres.status \in NullStatuses)
          /\ tres.val # None => tres.val.t = "num"
          /\ (treqs = <<"thingspeak", "cwc">> /\ page.kind = "neterr") =>
                tres.status = "NO_PUBLIC_RIVER_DATA"
    /\ tpc # "done" => tres = NoReading

C7_Witness ==
    /\ tpc = "done"
    /\ feed.kind = "badjson"
    /\ page.kind = "neterr"
    /\ tres.status = "NO_PUBLIC_RIVER_DATA"
    /\ treqs = <<"thingspeak", "cwc">>

----------------------------------------------------------------------------
(* Properties of the scheduler, checked under Spec and FairSpec *)

ThreadStarted == pc["updater"] # "notstarted"

\* C3: after a tick whose try block raised, OUT_HTML is what it was when
\* the tick started.
C3_FailedTickKeepsSnapshot ==
    (pc["updater"] = "sleep" /\ outcome = "raised") => file = tickFile

\* C5: the window never reads a partially written OUT_HTML.
C5_ReaderSeesCompleteSnapshot == shown # Truncated

\* C4: a try block that is left, completed or raised, is left for the
\* sleep; the sleep is left for the next tick; and once the thread runs,
\* it is in its sleep infinitely often and at the start of a tick
\* infinitely often.
C4_TickReturnsToIdle ==
    /\ [][(pc["updater"] \in TrySteps /\ pc'["updater"] \notin TrySteps)
            => pc'["updater"] = "sleep"]_vars
    /\ [][(pc["updater"] = "sleep" /\ pc'["updater"] # "sleep")
            => pc'["updater"] = "gather"]_vars
    /\ []<>(~ThreadStarted \/ pc["updater"] = "sleep")
    /\ []<>(~ThreadStarted \/ pc["updater"] = "gather")

C4_Witness ==
    /\ pc["updater"] = "gather"
    /\ outcome = "raised"
    /\ period > 0

\* C8: once the thread is started, main has completed build_map exactly
\* once and is in no statement of a fetch-and-render cycle, and from then on
\* OUT_HTML changes only in the updater's build_map.
C8_OneCycleAtATime ==
    /\ [](ThreadStarted => (renders = 1 /\ pc["main"] \notin CycleSteps))
    /\ [][(ThreadStarted /\ file' # file)
            => (pc["updater"] \in {"build", "write"}
                /\ pc'["updater"] # pc["updater"])]_vars

C8_Witness ==
    /\ pc["updater"] = "load_url"
    /\ pc["main"] = "gui"
    /\ file # tickFile
    /\ renders = 1

\* C9 as stated: consecutive ticks start exactly REFRESH_SECONDS apart.
C9_TickStartsEveryInterval == period \in {0, REFRESH_SECONDS}

\* C9 as amended: consecutive ticks start REFRESH_SECONDS plus the duration
\* of the earlier tick's try block apart, hence at least REFRESH_SECONDS.
C9_SleepFollowsTick ==
    (pc["updater"] \in TrySteps /\ period # 0) =>
        (period = bodyTime + REFRESH_SECONDS /\ period >= REFRESH_SECONDS)

C9_Witness ==
    /\ pc["updater"] \in TrySteps
    /\ outcome = "raised"
    /\ bodyTime = 1
    /\ period = REFRESH_SECONDS + 1

----------------------------------------------------------------------------
(* Scoring functions and derived fields *)

ScoreReturned == fcall.fn = "score" /\ fret.done

\* The score a call would return, inputs in hundredths.
ScoreOf(h, p) == compute_landslide_score(Num(h), Num(p)).score

\* C11: for numeric humidity h and pressure drop p the call returns a score
\* in [0, 100]; the score does not decrease when h grows from a value of at
\* least 60, nor when p grows from a value above 0; humidity 80 with a drop
\* of 2 gives 47 and the label mid.
C11_ScoreBoundedMonotone ==
    (ScoreReturned /\ fcall.hum # None /\ fcall.drop # None) =>
        LET h == fcall.hum.v
            p == fcall.drop.v
        IN /\ fret.val.exc = "none"
           /\ fret.val.score \in 0..1000
           /\ h >= 6000 => ScoreOf(h + 5, p) >= fret.val.score
           /\ p > 0 => ScoreOf(h, p + 25) >= fret.val.score
           /\ (h = 8000 /\ p = 200) =>
                 (fret.val.score = 470 /\ fret.val.label = "mid")

C11_Witness ==
    /\ ScoreReturned
    /\ fcall.hum = Num(8000)
    /\ fcall.drop = Num(200)
    /\ fret.val.score = 470
    /\ fret.val.label = "mid"

\* The band of a returned score, the score in tenths.
BandOfReturned(score) ==
    IF score >= 850 THEN "confirm 99%"
    ELSE IF score >= 600 THEN "high"
    ELSE IF score >= 350 THEN "mid"
    ELSE "no"

\* C12: the label a call returns is the band of the score it returns:
\* confirm from 85, high from 60, mid from 35, no below 35.
C12_LabelIsBandOfReturnedScore ==
    (ScoreReturned /\ fret.val.exc = "none") =>
        fret.val.label = BandOfReturned(fret.val.score)

ZeroIfNone(x) == IF x = None THEN Num(0) ELSE x

\* C13: the call never raises, and a None humidity or a None pressure drop
\* gives the score and label of the call with 0 in its place.
C13_NoneCountsAsZero ==
    ScoreReturned =>
        /\ fret.val.exc = "none"
        /\ fret.val = compute_landslide_score(ZeroIfNone(fcall.hum), ZeroIfNone(fcall.drop))

\* C14: when the primary feed yields a number v, the call returns v with
\* FLOOD WARNING above 400, HIGH above 300 up to 400, LOW below 100 and
\* NORMAL from 100 to 300.
C14_NumericLevelClassified ==
    (tpc = "done" /\ FeedNumeric) =>
        LET v == feed.field1.v
        IN /\ tres.val = Num(v)
           /\ v > 400 => tres.status = "FLOOD WARNING"
           /\ (300 < v /\ v <= 400) => tres.status = "HIGH"
           /\ v < 100 => tres.status = "LOW"
           /\ (100 <= v /\ v <= 300) => tres.status = "NORMAL"

ExtractReturned == fcall.fn = "extract" /\ fret.done

\* C15: the extraction sets pressure_drop_3h to pressure[idx-3] -
\* pressure[idx] when idx >= 3, whatever pressure[idx-3] is, and to 0 when
\* idx < 3.
C15_PressureDropFromThreeHoursBack ==
    ExtractReturned =>
        LET idx == AlignedIdx(fcall.now_key)
            ps == fcall.pressure
        IN /\ fret.val.exc = "none"
           /\ idx >= 3 => fret.val.pres_drop = Num(ps[idx - 2] - ps[idx + 1])
           /\ idx < 3 => fret.val.pres_drop = Num(0)

\* Point i of the run got a well-formed weather response and an hour key
\* that is not on its time axis.
KeyOffAxis(i) == ~WeatherFailed(i) /\ gin[i].now_key \notin 1..SeriesLen

\* C16: when the hour key is not on the time axis of a well-formed weather
\* response, the entry has no error, holds the readings at index 0 and has
\* a pressure_drop_3h of 0.
C16_MissingHourUsesIndexZero ==
    \A i \in 1..Len(results) :
        KeyOffAxis(i) =>
            LET hourly == gin[i].w.hourly
            IN /\ ~HasError(results[i])
               /\ results[i].temp = hourly.temperature_2m[1]
               /\ results[i].humid = hourly.relativehumidity_2m[1]
               /\ results[i].pressure = hourly.pressure_msl[1]
               /\ results[i].precip_now = hourly.precipitation[1]
               /\ results[i].precip_next1 = hourly.precipitation[2]
               /\ results[i].pressure_drop_3h = Num(0)

C16_Witness ==
    \E i \in 1..Len(results) :
        /\ KeyOffAxis(i)
        /\ gin[i].w = WeatherJson(95, 0)
        /\ results[i].temp = gin[i].w.hourly.temperature_2m[1]
        /\ results[i].pressure_drop_3h = Num(0)

\* C17: pm25_to_category returns for every argument: N/A for None, Good up
\* to 12, Moderate up to 35.4, Unhealthy for Sensitive Groups up to 55.4,
\* Unhealthy up to 150.4, Very Unhealthy up to 250.4, Hazardous above.
C17_CategoryBands ==
    (fcall.fn = "category" /\ fret.done) =>
        LET x == fcall.pm25
        IN /\ x = None => fret.val = "N/A"
           /\ (x # None /\ x.v <= 120) => fret.val = "Good"
           /\ (x # None /\ 120 < x.v /\ x.v <= 354) => fret.val = "Moderate"
           /\ (x # None /\ 354 < x.v /\ x.v <= 554) =>
                 fret.val = "Unhealthy for Sensitive Groups"
           /\ (x # None /\ 554 < x.v /\ x.v <= 1504) => fret.val = "Unhealthy"
           /\ (x # None /\ 1504 < x.v /\ x.v <= 2504) => fret.val = "Very Unhealthy"
           /\ (x # None /\ 2504 < x.v) => fret.val = "Hazardous"

C17_Witness ==
    /\ fcall = [fn |-> "category", pm25 |-> Num(354)]
    /\ fret = Returned("Moderate")

\* C18: rainfall_scale returns No below 0.2 mm, Mid from 0.2 to below 5,
\* High from 5 to below 20 and Confirm 99% from 20.
C18_RainfallBands ==
    (fcall.fn = "rain" /\ fret.done) =>
        LET mm == fcall.mm.v
        IN /\ mm < 20 => fret.val = "No"
           /\ (20 <= mm /\ mm < 500) => fret.val = "Mid"
           /\ (500 <= mm /\ mm < 2000) => fret.val = "High"
           /\ 2000 <= mm => fret.val = "Confirm 99%"

C18_Witness ==
    /\ fcall = [fn |-> "rain", mm |-> Num(2000)]
    /\ fret = Returned("Confirm 99%")

\* C19: the entry of a point is determined by that point's own responses
\* and hour key, whatever the other points got and whatever earlier runs
\* did.
C19_EntryDependsOnOwnInputs ==
    \A i \in 1..Len(results) :
        results[i] = PointResult(BUBBLES[i], gin[i].w, gin[i].now_key, gin[i].a)

C19_Witness ==
    /\ gprior
    /\ gpc = "done"
    /\ WeatherFailed(1)
    /\ gin[2].w = WeatherJson(80, 2)
    /\ gin[2].now_key = SeriesLen
    /\ gin[2].a \in AQFailures
    /\ results[2].pm25 = None
    /\ results[2].landslide_score = 610

\* The weather requests of the run, in the order issued.
WeatherRequests == SelectSeq(greqs, LAMBDA r : r[1] = "weather")

\* C20: points are requested in registry order, each source at most once
\* per point; the weather request of a point follows the entry of the point
\* before it; the air-quality request of a point follows directly on its
\* own weather request, and is never issued for a point whose weather step
\* failed.
C20_OnePointAtATime ==
    /\ \A j \in 1..Len(WeatherRequests) : WeatherRequests[j] = <<"weather", j>>
    /\ Len(WeatherRequests) = Len(results) + (IF gpc = "aq" THEN 1 ELSE 0)
    /\ \A j \in 1..Len(greqs) :
          greqs[j][1] = "aq" =>
              /\ j > 1
              /\ greqs[j - 1] = <<"weather", greqs[j][2]>>
              /\ greqs[j][2] <= Len(gin)
              /\ ~WeatherFailed(greqs[j][2])
    /\ \A i \in 1..Len(gin) :
          WeatherFailed(i) => \A j \in 1..Len(greqs) : greqs[j] # <<"aq", i>>

C20_Witness ==
    /\ gpc = "done"
    /\ WeatherFailed(1)
    /\ ~WeatherFailed(2)
    /\ greqs[1] = <<"weather", 1>>
    /\ greqs[2] = <<"weather", 2>>
    /\ greqs[3] = <<"aq", 2>>

====
